---- MODULE Spec2Model ----
(***************************************************************************)
(* A model of src/main.py: the course-page scraping pipeline behind         *)
(* POST /api/generate, the process-wide session cookie, the on-disk cache   *)
(* and the dashboard links, together with the pure extractor parse_files.   *)
(*                                                                         *)
(* Texts are sequences of one-character strings.  Python's None and the     *)
(* empty string are both falsy at every place the code tests them (lines    *)
(* 191, 198, 200, 206, 238, 440, 620), so both are modelled by the empty    *)
(* value of the type: NoText for texts and NoUrl for URLs.                  *)
(***************************************************************************)
EXTENDS Integers, Sequences, FiniteSets, TLC

\* ------------------------------------------------------------------ bounds
MaxRows == 3      \* rows of a files table given to parse_files
MaxCourses == 2   \* course rows of one listing page
MaxRuns == 2      \* calls of POST /api/generate
MaxFails == 2     \* failed subpage and material GETs within one call
MaxCookieRuns == 1  \* calls of POST /api/generate that set_cookie interleaves with
MaxCards == 2     \* (course, bundle) pairs of a courses_data whose grades are rendered
MaxText == 4      \* characters of a text given to parse_num

\* ------------------------------------------------------------- texts, URLs
NoText == <<>>

Truthy(t) == t # NoText

LowerChar(c) ==
    CASE c = "A" -> "a"
      [] c = "B" -> "b"
      [] OTHER -> c

\* str.lower()
Lower(t) == [i \in DOMAIN t |-> LowerChar(t[i])]

BaseHost == "classroom.btu.edu.ge"

NoUrl == [host |-> "", path |-> <<>>]

\* urllib.parse.urljoin(BASE_URL, href) for an href that is absolute or
\* starts with "/": an href with a host is kept, one without gets BASE_URL's.
urljoin(href) ==
    IF href.host = "" THEN [host |-> BaseHost, path |-> href.path] ELSE href

\* os.path.basename(urllib.parse.urlparse(url).path): the last path segment.
basename(url) ==
    IF url.path = <<>> THEN "" ELSE url.path[Len(url.path)]

DigitChar(d) ==
    CASE d = 0 -> "0" [] d = 1 -> "1" [] d = 2 -> "2" [] d = 3 -> "3"
      [] d = 4 -> "4" [] d = 5 -> "5" [] d = 6 -> "6" [] d = 7 -> "7"
      [] d = 8 -> "8" [] OTHER -> "9"

\* str(int(n)) for n >= 0
RECURSIVE IntText(_)
IntText(n) ==
    IF n < 10 THEN <<DigitChar(n)>>
    ELSE Append(IntText(n \div 10), DigitChar(n % 10))

\* An assessment of parse_scores: score is the cell text (NoText for None) and
\* max_points the number after "max" in the component (0 for None; None and
\* 0.0 are both falsy at lines 363 and 476).
Assessment(score, max_points) == [score |-> score, max_points |-> max_points]

\* ------------------------------------------------------------- parse_files
\* A <tr> of the #files table:
\*   lector_link  text of the first a[href*='/lector/'] in the row (has_lector
\*                says whether there is one),
\*   info         "info" is among the row's classes,
\*   tds          the number of <td> cells,
\*   name         tds[0].get_text(strip=True),
\*   href         href of the a[href*='/uploads/'] in tds[0], NoUrl if none,
\*   ext          href of the first <a> of tds[1], NoUrl if none.
IsMarker(tr) == tr.has_lector /\ tr.info

\* The same test with the comparison made case-sensitive.
ParseFilesFilteredCaseSensitive(my_lector, current_lector) ==
    Truthy(my_lector) /\ Truthy(current_lector) /\ current_lector # my_lector

\* line 191: the row is skipped because it belongs to another lecturer.
ParseFilesFiltered(my_lector, current_lector) ==
    Truthy(my_lector) /\ Truthy(current_lector)
        /\ Lower(current_lector) # Lower(my_lector)

MaterialOf(tr) ==
    [name |-> tr.name,
     url |-> IF tr.href # NoUrl THEN urljoin(tr.href) ELSE NoUrl,
     external_url |-> IF tr.tds > 1 /\ tr.ext # NoUrl THEN urljoin(tr.ext) ELSE NoUrl]

RECURSIVE ParseFilesScan(_, _, _, _, _)
ParseFilesScan(rows, i, my_lector, current_lector, materials) ==
    IF i > Len(rows) THEN materials
    ELSE LET tr == rows[i] IN
         IF IsMarker(tr)
         THEN ParseFilesScan(rows, i + 1, my_lector, tr.lector_link, materials)
         ELSE IF ParseFilesFiltered(my_lector, current_lector)
         THEN ParseFilesScan(rows, i + 1, my_lector, current_lector, materials)
         ELSE IF tr.tds = 0
         THEN ParseFilesScan(rows, i + 1, my_lector, current_lector, materials)
         ELSE IF Truthy(tr.name)
         THEN ParseFilesScan(rows, i + 1, my_lector, current_lector,
                             Append(materials, MaterialOf(tr)))
         ELSE ParseFilesScan(rows, i + 1, my_lector, current_lector, materials)

\* A files page is [table |-> whether #files is present, rows |-> its <tr>s].
parse_files(html, my_lector) ==
    IF ~ html.table THEN <<>>
    ELSE ParseFilesScan(html.rows, 1, my_lector, NoText, <<>>)

\* ------------------------------------------------------ names and folders
KeptChars == {"A", "B", "a", "b", " ", "-", "_"}

RECURSIVE LStrip(_)
LStrip(t) == IF t # <<>> /\ t[1] = " " THEN LStrip(Tail(t)) ELSE t

RECURSIVE RStrip(_)
RStrip(t) ==
    IF t # <<>> /\ t[Len(t)] = " " THEN RStrip(SubSeq(t, 1, Len(t) - 1)) ELSE t

IsKept(c) == c \in KeptChars

\* lines 241 and 387: keep alnum, " ", "-", "_", then strip().
safe_name(course_name) == RStrip(LStrip(SelectSeq(course_name, IsKept)))

html_folder_of(course_name) == <<"html", safe_name(course_name)>>

course_folder_of(course_name) == <<"courses", safe_name(course_name)>>

\* ----------------------------------------------------------- the portal
Cookies == {"c1", "c2"}

CourseUrl(id) == [host |-> BaseHost, path |-> <<"course", id>>]

\* The course rows parse_courses can return (name and url; the url is absolute,
\* lines 110-116).  "A" and "A!" share the folder name "A"; "B" has no link.
CourseRows ==
    { [name |-> <<"A">>, url |-> CourseUrl("1")],
      [name |-> <<"A", "!">>, url |-> CourseUrl("2")],
      [name |-> <<"B">>, url |-> NoUrl] }

SeqsUpTo(S, n) == UNION { [1..k -> S] : k \in 0..n }

Listings == SeqsUpTo(CourseRows, MaxCourses)

\* The landing page of a course: the href words of the #course_tabs anchors,
\* in document order, and whether an a[href*="courseSilabusFile"] is on the
\* page.  Course 1 has every subpage; course 2 has no syllabus, no groups and
\* no syllabus file.
LandingPage(url) ==
    IF url = CourseUrl("1")
    THEN [tabs |-> <<"silabus", "groups", "scores", "files">>, syllabus_file |-> TRUE]
    ELSE [tabs |-> <<"files", "logout", "scores", "files">>, syllabus_file |-> FALSE]

Upload(dir, file) == [host |-> "", path |-> <<"uploads", dir, file>>]

Row(has_lector, lector, info, tds, name, href) ==
    [has_lector |-> has_lector, lector_link |-> lector, info |-> info,
     tds |-> tds, name |-> name, href |-> href, ext |-> NoUrl]

MarkerRow(lector) == Row(TRUE, lector, TRUE, 1, lector, NoUrl)

FileRow(name, href) == Row(FALSE, NoText, FALSE, 2, name, href)

\* The files page of a course as served during the n-th generation run.  In
\* course 1, lecturer A has a file and a row without a link and lecturer B has
\* a file; course 2 has one file, under no lecturer, whose name on disk is that
\* of A's file.  The title of the first file carries the number of the run.
FilesPage(url, n) ==
    IF url.path[2] = "1"
    THEN [table |-> TRUE, ver |-> n,
          rows |-> << MarkerRow(<<"A">>),
                      FileRow(<<"a">> \o IntText(n), Upload("x", "f1")),
                      FileRow(<<"b">>, NoUrl),
                      MarkerRow(<<"B">>), FileRow(<<"b">>, Upload("x", "f2")) >>]
    ELSE [table |-> TRUE, ver |-> n,
          rows |-> << FileRow(<<"a">> \o IntText(n), Upload("y", "f1")) >>]

\* The scores page as served during the n-th generation run: the lector named
\* in the .tab_scores header and the rows of the table; the score of the one
\* assessment changes from run to run and its max. differs between the courses.
ScoresPage(url, n) ==
    [lector |-> <<"a">>,
     assessments |-> << Assessment(IntText(n), IF url.path[2] = "1" THEN 60 ELSE 40) >>,
     ver |-> n]

\* The syllabus and groups pages.
OtherPage(url, n) == [ver |-> n]

\* ------------------------------------------------------------ extractors
TabName(word) ==
    CASE word = "silabus" -> "syllabus"
      [] word = "groups" -> "groups"
      [] word = "scores" -> "scores"
      [] word = "files" -> "files"
      [] OTHER -> ""

HasKey(urls, name) == \E i \in DOMAIN urls : urls[i].name = name

\* dict assignment urls[name] = url: a new key goes last, a known key keeps
\* its place.
DictSet(urls, name, url) ==
    IF HasKey(urls, name)
    THEN [i \in DOMAIN urls |->
            IF urls[i].name = name THEN [name |-> name, url |-> url] ELSE urls[i]]
    ELSE Append(urls, [name |-> name, url |-> url])

SubUrl(base, word) == [host |-> "", path |-> Append(base.path, word)]

RECURSIVE ExtractTabs(_, _, _, _)
ExtractTabs(base, tabs, i, urls) ==
    IF i > Len(tabs) THEN urls
    ELSE IF TabName(tabs[i]) = "" THEN ExtractTabs(base, tabs, i + 1, urls)
    ELSE ExtractTabs(base, tabs, i + 1,
                     DictSet(urls, TabName(tabs[i]), urljoin(SubUrl(base, tabs[i]))))

\* extract_course_urls of the landing page fetched from `base`: the dict as
\* the sequence of its items in insertion order.
extract_course_urls(base, html) ==
    LET tabbed == ExtractTabs(base, html.tabs, 1, <<>>) IN
    IF html.syllabus_file
    THEN DictSet(tabbed, "syllabus_file", urljoin(SubUrl(base, "courseSilabusFile")))
    ELSE tabbed

parse_scores(html) == [lector |-> html.lector, assessments |-> html.assessments]

parse_groups(html) == html.ver

\* --------------------------------------------------------------- parse_num
\* str.strip()
Strip(t) == RStrip(LStrip(t))

\* str.replace(",", ".")
ReplaceComma(t) == [i \in DOMAIN t |-> IF t[i] = "," THEN "." ELSE t[i]]

Digits == {"0", "1", "2", "3", "4", "5", "6", "7", "8", "9"}

DigitVal(c) ==
    CASE c = "0" -> 0 [] c = "1" -> 1 [] c = "2" -> 2 [] c = "3" -> 3
      [] c = "4" -> 4 [] c = "5" -> 5 [] c = "6" -> 6 [] c = "7" -> 7
      [] c = "8" -> 8 [] OTHER -> 9

IsDigit(c) == c \in Digits

IsPoint(c) == c = "."

\* Whether float(txt) returns, for a text of digits, points, commas, spaces
\* and letters that spell no float: digits with at most one point among them
\* and at least one digit.
IsFloatText(txt) ==
    /\ \A i \in DOMAIN txt : IsDigit(txt[i]) \/ IsPoint(txt[i])
    /\ Len(SelectSeq(txt, IsPoint)) <= 1
    /\ SelectSeq(txt, IsDigit) # <<>>

RECURSIVE DigitsValue(_)
DigitsValue(ds) ==
    IF ds = <<>> THEN 0
    ELSE 10 * DigitsValue(SubSeq(ds, 1, Len(ds) - 1)) + DigitVal(ds[Len(ds)])

RECURSIVE Pow10(_)
Pow10(k) == IF k = 0 THEN 1 ELSE 10 * Pow10(k - 1)

\* The digits after the point.
RECURSIVE FracDigits(_)
FracDigits(txt) ==
    IF txt = <<>> THEN <<>>
    ELSE IF IsPoint(txt[1]) THEN Tail(txt) ELSE FracDigits(Tail(txt))

\* A fraction of denominator 10^k brought to its least such denominator.
RECURSIVE Reduce10(_, _)
Reduce10(num, den) ==
    IF den > 1 /\ num % 10 = 0 THEN Reduce10(num \div 10, den \div 10)
    ELSE [num |-> num, den |-> den]

\* float(txt) of a text IsFloatText accepts, as the decimal fraction it denotes.
FloatOf(txt) ==
    Reduce10(DigitsValue(SelectSeq(txt, IsDigit)), Pow10(Len(FracDigits(txt))))

\* lines 74-81, for a td_text that is a str.
parse_num(td_text) ==
    LET txt == ReplaceComma(Strip(td_text)) IN
    IF IsFloatText(txt)
    THEN [isnum |-> TRUE, value |-> FloatOf(txt), s |-> NoText]
    ELSE [isnum |-> FALSE, value |-> [num |-> 0, den |-> 1], s |-> Strip(txt)]

\* ------------------------------------------------------ grades and totals
\* A cell value as parse_num leaves it in course["grade"] and course["ects"]:
\* a float or a str.  The floats of this model are whole numbers.
Num(n) == [isnum |-> TRUE, n |-> n, s |-> NoText]

Str(s) == [isnum |-> FALSE, n |-> 0, s |-> s]

\* isinstance(v, (int, float))
IsNumber(v) == v.isnum

\* lines 320-323, for a float that is a whole number or for a str.
fmt_num(v) == IF IsNumber(v) THEN IntText(v.n) ELSE v.s

\* round(num / den) to the nearest integer, a tie going to the even one: what
\* the format specs .0f and .2f do with a float that is exactly num / den.
RoundHalfEven(num, den) ==
    LET q == num \div den
        r == num % den
    IN IF 2 * r > den \/ (2 * r = den /\ q % 2 = 1) THEN q + 1 ELSE q

\* f"{x:.2f}" for x = num / den >= 0
Fmt2(num, den) ==
    LET h == RoundHalfEven(100 * num, den) IN
    IntText(h \div 100) \o <<".">> \o <<DigitChar((h % 100) \div 10), DigitChar(h % 10)>>

\* f"{x:.0f}" for x = num / den >= 0
Fmt0(num, den) == IntText(RoundHalfEven(num, den))

\* lines 361-364 and 474-477
RECURSIVE course_max(_, _)
course_max(assessments, i) ==
    IF i > Len(assessments) THEN 0
    ELSE (IF Truthy(assessments[i].score) /\ assessments[i].max_points # 0
          THEN assessments[i].max_points ELSE 0)
         + course_max(assessments, i + 1)

\* The chain of comparisons of lines 327-338, 342-353 and 484-495 for the
\* value grade / max * 100 (max > 0): 1 for >= 91 down to 6 for below 51.
Band(grade, max) ==
    CASE 100 * grade >= 91 * max -> 1
      [] 100 * grade >= 81 * max -> 2
      [] 100 * grade >= 71 * max -> 3
      [] 100 * grade >= 61 * max -> 4
      [] 100 * grade >= 51 * max -> 5
      [] OTHER -> 6

BandColor(b) ==
    CASE b = 1 -> "#22c55e" [] b = 2 -> "#84cc16" [] b = 3 -> "#eab308"
      [] b = 4 -> "#f97316" [] b = 5 -> "#ef4444" [] OTHER -> "#991b1b"

\* lines 326-338
get_grade_color(grade) == BandColor(Band(grade, 100))

\* lines 341-353, for percentage = num / den * 100
get_percentage_color(num, den) == BandColor(Band(num, den))

\* lines 484-495, in tenths of a grade point
gpa_points(pct) ==
    LET b == Band(pct.grade, pct.max) IN
    CASE b = 1 -> 40 [] b = 2 -> 30 [] b = 3 -> 20 [] b = 4 -> 10 [] b = 5 -> 5
      [] OTHER -> 0

\* data.get("scores", {}).get("assessments", [])
Assessments(bundle) ==
    IF bundle.scores = <<>> THEN <<>> ELSE bundle.scores[1].assessments

\* The percentage badge is shown at 0 % and at 100 % as well.
generate_course_html_grade_badge_always(course, bundle) ==
    LET grade == course.grade
        max_possible == course_max(Assessments(bundle), 1)
    IN IF IsNumber(grade) /\ max_possible > 0
       THEN [grade_color |-> get_percentage_color(grade.n, max_possible),
             grade_display |-> fmt_num(grade) \o <<"/">> \o fmt_num(Num(max_possible)),
             pct_badge |-> IF 0 <= grade.n /\ grade.n <= max_possible
                           THEN Fmt0(100 * grade.n, max_possible) \o <<"%">>
                           ELSE NoText]
       ELSE IF IsNumber(grade)
       THEN [grade_color |-> get_grade_color(grade.n),
             grade_display |-> fmt_num(grade),
             pct_badge |-> NoText]
       ELSE [grade_color |-> "#52525b",
             grade_display |-> grade.s,
             pct_badge |-> NoText]

\* lines 356-384: the grade line of a course card.
generate_course_html_grade(course, bundle) ==
    LET grade == course.grade
        max_possible == course_max(Assessments(bundle), 1)
    IN IF IsNumber(grade) /\ max_possible > 0
       THEN [grade_color |-> get_percentage_color(grade.n, max_possible),
             grade_display |-> fmt_num(grade) \o <<"/">> \o fmt_num(Num(max_possible)),
             pct_badge |-> IF 0 < grade.n /\ grade.n < max_possible
                           THEN Fmt0(100 * grade.n, max_possible) \o <<"%">>
                           ELSE NoText]
       ELSE IF IsNumber(grade)
       THEN [grade_color |-> get_grade_color(grade.n),
             grade_display |-> fmt_num(grade),
             pct_badge |-> NoText]
       ELSE [grade_color |-> "#52525b",
             grade_display |-> grade.s,
             pct_badge |-> NoText]

\* The counters of generate_summary_html before its first loop (lines 464-468).
NoTotals ==
    [total_score |-> 0, total_max_possible |-> 0, total_ects_earned |-> 0,
     course_percentages |-> <<>>]

\* A grade is added to total_score only for a course that counts for the GPA.
RECURSIVE SummaryTotalsCountedOnly(_, _, _)
SummaryTotalsCountedOnly(courses_data, i, t) ==
    IF i > Len(courses_data) THEN t
    ELSE LET grade == courses_data[i].course.grade
             ects == courses_data[i].course.ects
             cmax == course_max(Assessments(courses_data[i].data), 1)
             counts == IsNumber(grade) /\ cmax > 0 /\ IsNumber(ects)
         IN SummaryTotalsCountedOnly(courses_data, i + 1,
              [total_score |-> t.total_score + (IF counts THEN grade.n ELSE 0),
               total_max_possible |-> t.total_max_possible + cmax,
               total_ects_earned |-> t.total_ects_earned + (IF counts THEN ects.n ELSE 0),
               course_percentages |->
                   IF counts
                   THEN Append(t.course_percentages,
                               [grade |-> grade.n, max |-> cmax, ects |-> ects.n])
                   ELSE t.course_percentages])

\* The loop of lines 469-482; a percentage is kept as the pair it is the
\* quotient of.
RECURSIVE SummaryTotals(_, _, _)
SummaryTotals(courses_data, i, t) ==
    IF i > Len(courses_data) THEN t
    ELSE LET grade == courses_data[i].course.grade
             ects == courses_data[i].course.ects
             cmax == course_max(Assessments(courses_data[i].data), 1)
             counts == IsNumber(grade) /\ cmax > 0 /\ IsNumber(ects)
         IN SummaryTotals(courses_data, i + 1,
              [total_score |-> t.total_score + (IF IsNumber(grade) THEN grade.n ELSE 0),
               total_max_possible |-> t.total_max_possible + cmax,
               total_ects_earned |-> t.total_ects_earned + (IF counts THEN ects.n ELSE 0),
               course_percentages |->
                   IF counts
                   THEN Append(t.course_percentages,
                               [grade |-> grade.n, max |-> cmax, ects |-> ects.n])
                   ELSE t.course_percentages])

\* The loop of lines 483-497: weighted_gpa, in tenths.
RECURSIVE WeightedGpa(_, _)
WeightedGpa(course_percentages, i) ==
    IF i > Len(course_percentages) THEN 0
    ELSE gpa_points(course_percentages[i]) * course_percentages[i].ects
         + WeightedGpa(course_percentages, i + 1)

\* The mean of the grade points is taken without the ECTS weights.
summary_gpa_unweighted(courses_data) ==
    LET t == SummaryTotals(courses_data, 1, NoTotals)
        unit == [i \in DOMAIN t.course_percentages |->
                    [t.course_percentages[i] EXCEPT !.ects = 1]]
    IN IF t.total_ects_earned > 0
       THEN [num |-> WeightedGpa(unit, 1), den |-> 10 * Len(unit)]
       ELSE [num |-> 0, den |-> 1]

\* line 498: gpa, as the fraction num / den.
summary_gpa(courses_data) ==
    LET t == SummaryTotals(courses_data, 1, NoTotals) IN
    IF t.total_ects_earned > 0
    THEN [num |-> WeightedGpa(t.course_percentages, 1), den |-> 10 * t.total_ects_earned]
    ELSE [num |-> 0, den |-> 1]

\* lines 463-524: the figures the summary block shows.
generate_summary_html(courses_data) ==
    LET t == SummaryTotals(courses_data, 1, NoTotals)
        gpa == summary_gpa(courses_data)
        positive == t.total_max_possible > 0
    IN [gpa |-> Fmt2(gpa.num, gpa.den),
        gpa_color |-> get_percentage_color(gpa.num, 4 * gpa.den),
        total_score |-> fmt_num(Num(t.total_score)),
        total_max_possible |-> fmt_num(Num(t.total_max_possible)),
        score_color |-> IF positive
                        THEN get_percentage_color(t.total_score, t.total_max_possible)
                        ELSE get_percentage_color(0, 1),
        score_pct_badge |-> IF positive /\ 0 < t.total_score
                                        /\ t.total_score < t.total_max_possible
                            THEN Fmt0(100 * t.total_score, t.total_max_possible) \o <<"%">>
                            ELSE NoText,
        course_count |-> IntText(Len(courses_data)),
        ects |-> fmt_num(Num(t.total_ects_earned))]

\* ------------------------------------------------------------------ state
VARIABLES
    COOKIE,        \* the global COOKIE (line 26)
    fs,            \* the files on disk: path -> content
    dirs,          \* the directories made by os.makedirs
    index_html,    \* INDEX_HTML: [exists, cards]
    pc,            \* where api_generate is
    runs,          \* calls of api_generate so far
    courses,       \* api_generate: courses
    idx,           \* api_generate: idx
    cookie,        \* fetch_course_pages: its parameter cookie
    urls,          \* fetch_course_pages: urls, as the items in dict order
    ui,            \* fetch_course_pages: position of the for loop in urls
    res,           \* api_generate: res
    data,          \* api_generate: data
    mi,            \* api_generate: position of the for loop in materials
    courses_data,  \* api_generate: courses_data
    response,      \* what the last api_generate call answered
    reqs,          \* history: the GETs issued for the current course
    sent,          \* history: the cookie the latest GET carried, and COOKIE then
    fs0,           \* history: fs when the current course was begun
    dirs0,         \* history: dirs when the current course was begun
    captured,      \* history: per finished course, the names in res["urls"]
    kept,          \* history: per finished course, the cached pages whose refetch failed
    nfail,         \* history: failed subpage and material GETs of this run
    pf_html,       \* parse_files: argument html
    pf_my_lector,  \* parse_files: argument my_lector
    pf_result,     \* parse_files: the list returned
    pf_done,       \* parse_files has returned
    sm_courses_data,  \* generate_dashboard_html: argument courses_data
    sm_cards,      \* generate_course_html: the grade line of each card
    sm_summary,    \* generate_summary_html: the figures of the summary block
    sm_gpa,        \* generate_summary_html: its local gpa, as a fraction
    sm_pc,         \* where the rendering of the grades is
    pn_td_text,    \* parse_num: argument td_text
    pn_result,     \* parse_num: the value returned
    pn_done        \* parse_num has returned

gen_vars == <<COOKIE, fs, dirs, index_html, pc, runs, courses, idx, cookie, urls,
              ui, res, data, mi, courses_data, response, reqs, sent, fs0, dirs0,
              captured, kept, nfail>>

pf_vars == <<pf_html, pf_my_lector, pf_result, pf_done>>

sm_vars == <<sm_courses_data, sm_cards, sm_summary, sm_gpa, sm_pc>>

pn_vars == <<pn_td_text, pn_result, pn_done>>

\* The variables of the functions that are modelled on inputs of their own.
fn_vars == <<pf_vars, sm_vars, pn_vars>>

vars == <<gen_vars, fn_vars>>

\* --------------------------------------------------------------- the disk
Exists(f, d, path) == path \in DOMAIN f \/ path \in d

Write(f, path, content) ==
    [q \in DOMAIN f \cup {path} |-> IF q = path THEN content ELSE f[q]]

File(folder, file) == Append(folder, file)

\* os.makedirs of lines 244-246
MakeDirs(d, course_name) ==
    d \cup { html_folder_of(course_name), course_folder_of(course_name),
             File(course_folder_of(course_name), "material") }

\* os.path.join(course_folder, "material", filename): an empty filename
\* names the material directory itself.
MaterialPath(course_folder, filename) ==
    IF filename = "" THEN File(course_folder, "material")
    ELSE Append(File(course_folder, "material"), filename)

\* ------------------------------------------------------------- the bundle
NoData == [scores |-> <<>>, materials |-> <<>>, groups |-> <<>>, syllabus_file |-> <<>>]

\* data.get(key, default): a key is present when its field holds one value.
DataGet(d, key, default) == IF d[key] = <<>> THEN default ELSE d[key][1]

\* lines 297-316.  The keys set are scores, materials and groups only.
parse_course_data_from_folder(f, d, html_folder) ==
    LET scores_path == File(html_folder, "scores.html")
        files_path == File(html_folder, "files.html")
        groups_path == File(html_folder, "groups.html")
        scores == IF Exists(f, d, scores_path)
                  THEN << parse_scores(f[scores_path].body) >> ELSE <<>>
        my_lector == IF scores = <<>> THEN NoText ELSE scores[1].lector
    IN [scores |-> scores,
        materials |-> IF Exists(f, d, files_path)
                      THEN << parse_files(f[files_path].body, my_lector) >> ELSE <<>>,
        groups |-> IF Exists(f, d, groups_path)
                   THEN << parse_groups(f[groups_path].body) >> ELSE <<>>,
        syllabus_file |-> <<>>]

\* -------------------------------------------------------------- rendering
NoLink == [endpoint |-> "", arg |-> NoUrl]

\* urllib.parse.quote(url, safe=""): the percent-encoded form of url.
quote(url) == [quoted |-> url]

ProxyLink(url) == [endpoint |-> "/api/proxy?url=", arg |-> quote(url)]

LocalLink(path) == [endpoint |-> "/", arg |-> [path |-> path]]

RECURSIVE MaterialLinks(_, _)
MaterialLinks(materials, i) ==
    IF i > Len(materials) THEN <<>>
    ELSE IF materials[i].url # NoUrl
    THEN <<ProxyLink(materials[i].url)>> \o MaterialLinks(materials, i + 1)
    ELSE MaterialLinks(materials, i + 1)

\* lines 440-443: the titles of the material links.
RECURSIVE MaterialNames(_, _)
MaterialNames(materials, i) ==
    IF i > Len(materials) THEN <<>>
    ELSE IF materials[i].url # NoUrl
    THEN <<materials[i].name>> \o MaterialNames(materials, i + 1)
    ELSE MaterialNames(materials, i + 1)

\* lines 394-421: score_display of one assessment, for a score that is empty,
\* is no number, or denotes a whole number.
score_display(a) ==
    LET raw == ReplaceComma(a.score)
        score_formatted == IF IsFloatText(raw) THEN IntText(FloatOf(raw).num)
                           ELSE a.score
    IN IF ~ Truthy(a.score) THEN <<"-">>
       ELSE IF a.max_points # 0
       THEN score_formatted \o <<"/">> \o IntText(a.max_points)
       ELSE score_formatted

\* lines 357, 386-389 and 392-446: the assessments, the syllabus link and the
\* material links of one course card.
generate_course_html(f, d, course, bundle) ==
    LET scores == DataGet(bundle, "scores", [lector |-> NoText, assessments |-> <<>>])
        materials == DataGet(bundle, "materials", <<>>)
        syllabus_path == File(course_folder_of(course.name), "syllabus.pdf")
        syllabus_file == DataGet(bundle, "syllabus_file", NoUrl)
        has_syllabus == Exists(f, d, syllabus_path) \/ syllabus_file # NoUrl
    IN [name |-> course.name,
        syllabus_html |->
            IF has_syllabus /\ syllabus_file # NoUrl THEN ProxyLink(syllabus_file)
            ELSE IF Exists(f, d, syllabus_path) THEN LocalLink(syllabus_path)
            ELSE NoLink,
        assessments |-> [i \in DOMAIN scores.assessments |->
                            score_display(scores.assessments[i])],
        material_links |-> MaterialLinks(materials, 1),
        material_names |-> MaterialNames(materials, 1)]

\* lines 534-537
generate_dashboard_html(f, d, cd) ==
    [i \in DOMAIN cd |-> generate_course_html(f, d, cd[i].course, cd[i].data)]

\* ------------------------------------------------------- the fetch policy
HtmlFile(name) ==
    CASE name = "scores" -> "scores.html"
      [] name = "files" -> "files.html"
      [] name = "groups" -> "groups.html"
      [] name = "syllabus" -> "syllabus.html"
      [] OTHER -> "syllabus_file.html"

\* Every subpage is refetched on every run.
NeedsFetchAlways(f, d, name, html_folder, course_folder) == TRUE

\* files is cached like groups and syllabus.
NeedsFetchFilesCached(f, d, name, html_folder, course_folder) ==
    CASE name = "syllabus_file" -> ~ Exists(f, d, File(course_folder, "syllabus.pdf"))
      [] name = "scores" -> TRUE
      [] OTHER -> ~ Exists(f, d, File(html_folder, HtmlFile(name)))

\* lines 257-292: whether the loop body issues a GET for urls[name].
NeedsFetch(f, d, name, html_folder, course_folder) ==
    CASE name = "syllabus_file" -> ~ Exists(f, d, File(course_folder, "syllabus.pdf"))
      [] name \in {"scores", "files"} -> TRUE
      [] OTHER -> ~ Exists(f, d, File(html_folder, HtmlFile(name)))

\* Existing material files are downloaded again.
MaterialNeedsFetchAlways(f, d, m, course_folder) == m.url # NoUrl

\* lines 620-625: whether a GET is issued for material m.
MaterialNeedsFetch(f, d, m, course_folder) ==
    /\ m.url # NoUrl
    /\ ~ Exists(f, d, MaterialPath(course_folder, basename(m.url)))

\* Courses without a url are fetched like the others.
HasUrlAlways(course) == TRUE

\* line 238
HasUrl(course) == course.url # NoUrl

\* The scores fetch is outside any try block.
CaughtButScores(site) == site \in {"syllabus_file", "files", "syllabus", "groups", "material"}

\* The landing-page fetch is wrapped in a try block as well.
CaughtWithLanding(site) ==
    site \in {"landing", "syllabus_file", "scores", "files", "syllabus", "groups", "material"}

\* Whether an exception raised by the GET at `site` is caught there: the try
\* blocks of lines 261-267, 270-275, 277-282, 287-292 and 626-630.  The GETs
\* of lines 248 and 604 are in no try block.
Caught(site) ==
    site \in {"syllabus_file", "scores", "files", "syllabus", "groups", "material"}

\* ----------------------------------------------------------------- steps
ListingUrl == [host |-> BaseHost, path |-> <<"en", "student", "me", "courses">>]

Failed == [failed |-> TRUE]

\* The outcomes of a subpage or material GET: it may fail while fewer than
\* MaxFails such GETs have failed in this call.
Outcomes(n) == IF n < MaxFails THEN BOOLEAN ELSE {TRUE}

Req(site, name, url, ok, body) ==
    [site |-> site, name |-> name, url |-> url, ok |-> ok, body |-> body]

Page(url, body) == [src |-> url, body |-> body]

NoRes == [html_folder |-> <<>>, course_folder |-> <<>>, urls |-> <<>>]

NoResponse == [status |-> "none", courses_count |-> 0, at |-> ""]

UrlNames(us) == { us[i].name : i \in DOMAIN us }

\* The exception is swallowed and the loop goes on with the next course.
RaisedButLoopGoesOn(at) ==
    /\ pc' = "loop"
    /\ response' = NoResponse

\* An exception leaves api_generate: the framework answers with an error.
Raised(at) ==
    /\ pc' = "idle"
    /\ response' = [status |-> "error", courses_count |-> 0, at |-> at]

InitGen ==
    /\ COOKIE = "c1"
    /\ fs = <<>>
    /\ dirs = {}
    /\ index_html = [exists |-> FALSE, cards |-> <<>>]
    /\ pc = "idle"
    /\ runs = 0
    /\ courses = <<>>
    /\ idx = 0
    /\ cookie = "c1"
    /\ urls = <<>>
    /\ ui = 1
    /\ res = NoRes
    /\ data = NoData
    /\ mi = 1
    /\ courses_data = <<>>
    /\ response = NoResponse
    /\ reqs = <<>>
    /\ sent = [cookie |-> "c1", global |-> "c1"]
    /\ fs0 = <<>>
    /\ dirs0 = {}
    /\ captured = <<>>
    /\ kept = <<>>
    /\ nfail = 0

\* parse_files is not under way.
PfIdle ==
    /\ pf_html = [table |-> FALSE, rows |-> <<>>]
    /\ pf_my_lector = NoText
    /\ pf_result = <<>>
    /\ pf_done = FALSE

NoSummary ==
    [gpa |-> NoText, gpa_color |-> "", total_score |-> NoText,
     total_max_possible |-> NoText, score_color |-> "", score_pct_badge |-> NoText,
     course_count |-> NoText, ects |-> NoText]

\* No dashboard is being rendered from courses_data of its own.
SmIdle ==
    /\ sm_courses_data = <<>>
    /\ sm_cards = <<>>
    /\ sm_summary = NoSummary
    /\ sm_gpa = [num |-> 0, den |-> 1]
    /\ sm_pc = "done"

\* parse_num is not under way.
PnIdle ==
    /\ pn_td_text = NoText
    /\ pn_result = [isnum |-> FALSE, value |-> [num |-> 0, den |-> 1], s |-> NoText]
    /\ pn_done = TRUE

Init ==
    /\ InitGen
    /\ PfIdle
    /\ SmIdle
    /\ PnIdle

\* POST /api/set_cookie, lines 545-550
set_cookie ==
    /\ \E c \in Cookies : COOKIE' = c
    /\ UNCHANGED <<fs, dirs, index_html, pc, runs, courses, idx, cookie, urls, ui,
                   res, data, mi, courses_data, response, reqs, sent, fs0, dirs0,
                   captured, kept, nfail>>
    /\ UNCHANGED fn_vars

\* POST /api/generate up to the end of lines 604-608: the listing is fetched
\* with the COOKIE of that moment and parsed.
api_generate_listing ==
    /\ pc = "idle"
    /\ runs < MaxRuns
    /\ runs' = runs + 1
    /\ sent' = [cookie |-> COOKIE, global |-> COOKIE]
    /\ nfail' = 0
    /\ captured' = <<>>
    /\ kept' = <<>>
    /\ courses_data' = <<>>
    /\ idx' = 0
    /\ \E ok \in BOOLEAN :
         IF ok
         THEN \E listing \in Listings :
                /\ reqs' = <<Req("listing", "", ListingUrl, TRUE, listing)>>
                /\ courses' = listing
                /\ pc' = "loop"
                /\ response' = NoResponse
         ELSE /\ reqs' = <<Req("listing", "", ListingUrl, FALSE, Failed)>>
              /\ courses' = <<>>
              /\ Raised("listing")
    /\ fs0' = fs
    /\ dirs0' = dirs
    /\ UNCHANGED <<COOKIE, fs, dirs, index_html, cookie, urls, ui, res, data, mi>>
    /\ UNCHANGED fn_vars

\* line 612 and fetch_course_pages up to line 253: the call binds the
\* parameter cookie to COOKIE, makes the folders, fetches the landing page with
\* that cookie, saves it as course.html and extracts the subpage URLs.
fetch_course_pages_landing ==
    /\ pc = "loop"
    /\ idx < Len(courses)
    /\ LET course == courses[idx + 1]
           html_folder == html_folder_of(course.name)
           course_folder == course_folder_of(course.name)
       IN /\ idx' = idx + 1
          /\ cookie' = COOKIE
          /\ fs0' = fs
          /\ dirs0' = dirs
          /\ data' = NoData
          /\ mi' = 1
          /\ ui' = 1
          /\ IF ~ HasUrl(course)
             THEN /\ res' = NoRes
                  /\ urls' = <<>>
                  /\ reqs' = <<>>
                  /\ pc' = "parse"
                  /\ UNCHANGED <<fs, dirs, sent, response>>
             ELSE /\ dirs' = MakeDirs(dirs, course.name)
                  /\ sent' = [cookie |-> COOKIE, global |-> COOKIE]
                  /\ \E ok \in BOOLEAN :
                       IF ok
                       THEN LET page == LandingPage(course.url) IN
                              /\ reqs' = <<Req("landing", "", course.url, TRUE, page)>>
                              /\ fs' = Write(fs, File(html_folder, "course.html"),
                                             Page(course.url, page))
                              /\ urls' = extract_course_urls(course.url, page)
                              /\ res' = [html_folder |-> html_folder,
                                         course_folder |-> course_folder,
                                         urls |-> urls']
                              /\ pc' = IF urls' = <<>> THEN "parse" ELSE "subpages"
                              /\ UNCHANGED response
                       ELSE /\ reqs' = <<Req("landing", "", course.url, FALSE, Failed)>>
                            /\ IF Caught("landing")
                               THEN /\ fs' = Write(fs, File(html_folder, "course.html"),
                                                   Page(course.url, Failed))
                                    /\ urls' = <<>>
                                    /\ res' = [html_folder |-> html_folder,
                                               course_folder |-> course_folder,
                                               urls |-> <<>>]
                                    /\ pc' = "parse"
                                    /\ UNCHANGED response
                               ELSE /\ Raised("landing")
                                    /\ UNCHANGED <<fs, urls, res>>
    /\ UNCHANGED <<COOKIE, index_html, runs, courses, courses_data, captured, kept, nfail>>
    /\ UNCHANGED fn_vars

\* A failed fetch removes the cached copy of the page.
AfterFailedFetchDropsCopy(f, path) == [q \in DOMAIN f \ {path} |-> f[q]]

\* The disk after a subpage GET failed: fetch_text or fetch_bytes raised before
\* the file was opened, and the except clauses of lines 266-267, 274-275,
\* 281-282 and 291-292 only print.
AfterFailedFetch(f, path) == f

\* What the portal serves at a subpage URL during the n-th generation run.
SubpageBody(name, url, n) ==
    CASE name = "scores" -> ScoresPage(url, n)
      [] name = "files" -> FilesPage(url, n)
      [] name = "syllabus_file" -> [bytes |-> "pdf"]
      [] OTHER -> OtherPage(url, n)

\* One turn of the loop of lines 256-292, for urls[ui].
fetch_course_pages_subpage ==
    /\ pc = "subpages"
    /\ ui <= Len(urls)
    /\ LET name == urls[ui].name
           url == urls[ui].url
           after == IF ui = Len(urls) THEN "parse" ELSE "subpages"
       IN /\ ui' = ui + 1
          /\ IF NeedsFetch(fs, dirs, name, res.html_folder, res.course_folder)
             THEN /\ sent' = [cookie |-> cookie, global |-> COOKIE]
                  /\ \E ok \in Outcomes(nfail) :
                       IF ok
                       THEN LET body == SubpageBody(name, url, runs) IN
                              /\ reqs' = Append(reqs, Req("subpage", name, url, TRUE, body))
                              /\ fs' = IF name = "syllabus_file"
                                       THEN Write(Write(fs, File(res.html_folder, "syllabus_file.pdf"),
                                                        Page(url, body)),
                                                  File(res.course_folder, "syllabus.pdf"),
                                                  Page(url, body))
                                       ELSE Write(fs, File(res.html_folder, HtmlFile(name)),
                                                  Page(url, body))
                              /\ pc' = after
                              /\ UNCHANGED <<nfail, response>>
                       ELSE /\ reqs' = Append(reqs, Req("subpage", name, url, FALSE, Failed))
                            /\ fs' = AfterFailedFetch(fs, File(res.html_folder, HtmlFile(name)))
                            /\ IF Caught(name)
                               THEN /\ nfail' = nfail + 1
                                    /\ pc' = after
                                    /\ UNCHANGED response
                               ELSE /\ Raised(name)
                                    /\ UNCHANGED nfail
             ELSE /\ pc' = after
                  /\ UNCHANGED <<fs, reqs, sent, nfail, response>>
    /\ UNCHANGED <<COOKIE, dirs, index_html, runs, courses, idx, cookie, urls, res,
                   data, mi, courses_data, fs0, dirs0, captured, kept>>
    /\ UNCHANGED fn_vars

\* line 614: the bundle is parsed from the folder res names ("" when res = {}).
api_generate_parse ==
    /\ pc = "parse"
    /\ data' = parse_course_data_from_folder(fs, dirs, res.html_folder)
    /\ mi' = 1
    /\ pc' = "materials"
    /\ UNCHANGED <<COOKIE, fs, dirs, index_html, runs, courses, idx, cookie, urls,
                   ui, res, courses_data, response, reqs, sent, fs0, dirs0, captured, kept,
                   nfail>>
    /\ UNCHANGED fn_vars

MaterialsLeft ==
    /\ DataGet(data, "materials", <<>>) # <<>>
    /\ res.course_folder # <<>>
    /\ mi <= Len(DataGet(data, "materials", <<>>))

\* One turn of the loop of lines 619-630, for materials[mi]; the download
\* carries the COOKIE of that moment.
api_generate_material ==
    /\ pc = "materials"
    /\ MaterialsLeft
    /\ LET m == DataGet(data, "materials", <<>>)[mi]
           outpath == MaterialPath(res.course_folder, basename(m.url))
       IN /\ mi' = mi + 1
          /\ IF MaterialNeedsFetch(fs, dirs, m, res.course_folder)
             THEN /\ sent' = [cookie |-> COOKIE, global |-> COOKIE]
                  /\ \E ok \in Outcomes(nfail) :
                       IF ok
                       THEN /\ reqs' = Append(reqs, Req("material", "", m.url, TRUE,
                                                         [bytes |-> "file"]))
                            /\ fs' = Write(fs, outpath, Page(m.url, [bytes |-> "file"]))
                            /\ UNCHANGED <<pc, nfail, response>>
                       ELSE /\ reqs' = Append(reqs, Req("material", "", m.url, FALSE, Failed))
                            /\ UNCHANGED fs
                            /\ IF Caught("material")
                               THEN /\ nfail' = nfail + 1
                                    /\ UNCHANGED <<pc, response>>
                               ELSE /\ Raised("material")
                                    /\ UNCHANGED nfail
             ELSE UNCHANGED <<fs, reqs, sent, nfail, pc, response>>
    /\ UNCHANGED <<COOKIE, dirs, index_html, runs, courses, idx, cookie, urls, ui,
                   res, data, courses_data, fs0, dirs0, captured, kept>>
    /\ UNCHANGED fn_vars

\* For scores and files of the current course: the page that was cached when
\* the course was begun, if the GET for it failed in this call.
KeptPages ==
    [n \in {"scores", "files"} |->
        IF /\ \E i \in DOMAIN reqs :
                 reqs[i].site = "subpage" /\ reqs[i].name = n /\ ~ reqs[i].ok
           /\ File(res.html_folder, HtmlFile(n)) \in DOMAIN fs0
        THEN << fs0[File(res.html_folder, HtmlFile(n))] >>
        ELSE <<>>]

\* line 631
api_generate_append ==
    /\ pc = "materials"
    /\ ~ MaterialsLeft
    /\ courses_data' = Append(courses_data, [course |-> courses[idx], data |-> data])
    /\ captured' = Append(captured, UrlNames(res.urls))
    /\ kept' = Append(kept, KeptPages)
    /\ pc' = "loop"
    /\ reqs' = <<>>
    /\ fs0' = fs
    /\ dirs0' = dirs
    /\ UNCHANGED <<COOKIE, fs, dirs, index_html, runs, courses, idx, cookie, urls,
                   ui, res, data, mi, response, sent, nfail>>
    /\ UNCHANGED fn_vars

\* lines 633-638: the dashboard is rendered, written to INDEX_HTML and the
\* count is returned.  templates/template.html is taken to be installed.
api_generate_dashboard ==
    /\ pc = "loop"
    /\ idx = Len(courses)
    /\ index_html' = [exists |-> TRUE,
                      cards |-> generate_dashboard_html(fs, dirs, courses_data)]
    /\ response' = [status |-> "ok", courses_count |-> Len(courses_data), at |-> ""]
    /\ pc' = "idle"
    /\ UNCHANGED <<COOKIE, fs, dirs, runs, courses, idx, cookie, urls, ui, res, data,
                   mi, courses_data, reqs, sent, fs0, dirs0, captured, kept, nfail>>
    /\ UNCHANGED fn_vars

Next ==
    \/ api_generate_listing
    \/ fetch_course_pages_landing
    \/ fetch_course_pages_subpage
    \/ api_generate_parse
    \/ api_generate_material
    \/ api_generate_append
    \/ api_generate_dashboard

Spec == Init /\ [][Next]_vars

\* set_cookie interleaved, at every suspension point, with the steps of
\* MaxCookieRuns calls of api_generate.
NextCookie ==
    \/ set_cookie
    \/ (Next /\ runs' <= MaxCookieRuns)

SpecCookie == Init /\ [][NextCookie]_vars

\* ------------------------------------------- parse_files on its own inputs
\* The <tr>s a files table is made of: lecturer markers (one with an empty
\* lecturer text), file rows with and without a link, a row without cells, a
\* row with an empty name, and a row with a lecturer link but no "info" class.
FilesRows ==
    { MarkerRow(<<"A">>), MarkerRow(<<"B">>), MarkerRow(NoText),
      FileRow(<<"f">>, Upload("x", "f1")),
      FileRow(<<"g">>, NoUrl),
      Row(FALSE, NoText, FALSE, 0, NoText, NoUrl),
      Row(FALSE, NoText, TRUE, 1, NoText, NoUrl),
      Row(TRUE, <<"B">>, FALSE, 2, <<"h">>, Upload("x", "f2")) }

Lectors == { NoText, <<"a">>, <<"A">>, <<"b">> }

InitFiles ==
    /\ InitGen
    /\ SmIdle
    /\ PnIdle
    /\ pf_html \in { [table |-> t, rows |-> r] :
                       t \in BOOLEAN, r \in SeqsUpTo(FilesRows, MaxRows) }
    /\ pf_my_lector \in Lectors
    /\ pf_result = <<>>
    /\ pf_done = FALSE

parse_files_call ==
    /\ ~ pf_done
    /\ pf_result' = parse_files(pf_html, pf_my_lector)
    /\ pf_done' = TRUE
    /\ UNCHANGED <<pf_html, pf_my_lector>>
    /\ UNCHANGED <<gen_vars, sm_vars, pn_vars>>

NextFiles == parse_files_call

SpecFiles == InitFiles /\ [][NextFiles]_vars

\* ------------------------------- the grades of a dashboard on its own inputs
\* course["grade"]: whole numbers from 0 to 100, and a text.
Grades == { Num(0), Num(55), Num(65), Num(90), Num(100), Str(<<"-">>) }

\* course["ects"]: whole numbers, and the text of an empty cell.
EctsValues == { Num(0), Num(5), Num(6), Str(NoText) }

\* Bundles: without scores; with one scored assessment of max. 60; and with
\* scored assessments of max. 40 and 60 next to one without a score and one
\* without max_points.
Bundles ==
    { [scores |-> <<>>],
      [scores |-> << [assessments |-> << Assessment(<<"5", "5">>, 60) >>] >>],
      [scores |-> << [assessments |-> << Assessment(<<"5">>, 40),
                                         Assessment(NoText, 30),
                                         Assessment(<<"0">>, 60),
                                         Assessment(<<"1">>, 0) >>] >>] }

CardPairs ==
    { [course |-> [grade |-> g, ects |-> e], data |-> b] :
        g \in Grades, e \in EctsValues, b \in Bundles }

InitGrades ==
    /\ InitGen
    /\ PfIdle
    /\ PnIdle
    /\ sm_courses_data \in SeqsUpTo(CardPairs, MaxCards)
    /\ sm_cards = <<>>
    /\ sm_summary = NoSummary
    /\ sm_gpa = [num |-> 0, den |-> 1]
    /\ sm_pc = "start"

\* lines 534-536: every card's grade line, then the summary.
generate_dashboard_html_grades ==
    /\ sm_pc = "start"
    /\ sm_cards' = [i \in DOMAIN sm_courses_data |->
                      generate_course_html_grade(sm_courses_data[i].course,
                                                 sm_courses_data[i].data)]
    /\ sm_summary' = generate_summary_html(sm_courses_data)
    /\ sm_gpa' = summary_gpa(sm_courses_data)
    /\ sm_pc' = "done"
    /\ UNCHANGED sm_courses_data
    /\ UNCHANGED <<gen_vars, pf_vars, pn_vars>>

NextGrades == generate_dashboard_html_grades

SpecGrades == InitGrades /\ [][NextGrades]_vars

\* --------------------------------------------- parse_num on its own inputs
TextChars == {"0", "1", "5", ".", ",", " ", "x"}

InitNum ==
    /\ InitGen
    /\ PfIdle
    /\ SmIdle
    /\ pn_td_text \in SeqsUpTo(TextChars, MaxText)
    /\ pn_result = [isnum |-> FALSE, value |-> [num |-> 0, den |-> 1], s |-> NoText]
    /\ pn_done = FALSE

parse_num_call ==
    /\ ~ pn_done
    /\ pn_result' = parse_num(pn_td_text)
    /\ pn_done' = TRUE
    /\ UNCHANGED pn_td_text
    /\ UNCHANGED <<gen_vars, pf_vars, sm_vars>>

NextNum == parse_num_call

SpecNum == InitNum /\ [][NextNum]_vars

\* ------------------------------------------------------------ the claims
\* A call of fetch_course_pages for courses[idx] is under way, or has returned
\* and its bundle is not yet appended.
InCourse == pc \in {"subpages", "parse", "materials"}

\* fetch_course_pages has returned for courses[idx].
PagesDone == pc \in {"parse", "materials"}

Requested(name) == \E i \in DOMAIN reqs : reqs[i].site = "subpage" /\ reqs[i].name = name

UrlOf(name) == (CHOOSE i \in DOMAIN urls : urls[i].name = name)

PdfPath == File(course_folder_of(courses[idx].name), "syllabus.pdf")

\* C1: for a course whose landing page yields a syllabus_file URL and a scores
\* URL, a call of fetch_course_pages that starts with
\* courses/<safe_name>/syllabus.pdf on disk issues no GET for the syllabus-file
\* URL, and every call whose landing-page fetch succeeded has issued a GET for
\* the scores URL by the time it returns.
C1_SkipPdfRefetchScores ==
    (InCourse /\ HasKey(urls, "syllabus_file") /\ HasKey(urls, "scores")) =>
        /\ Exists(fs0, dirs0, PdfPath) => ~ Requested("syllabus_file")
        /\ PagesDone =>
             \E i \in DOMAIN reqs :
                /\ reqs[i].site = "subpage"
                /\ reqs[i].name = "scores"
                /\ reqs[i].url = urls[UrlOf("scores")].url

C1_Witness ==
    /\ runs = 2
    /\ PagesDone
    /\ HasKey(urls, "syllabus_file")
    /\ Exists(fs0, dirs0, PdfPath)
    /\ Requested("scores")
    /\ ~ Requested("syllabus_file")

\* C2: a failed subpage or material GET never ends the run.  The only errors
\* api_generate ends with come from the listing or a landing page; after
\* failed subpage GETs the always-fetched subpages later in urls are fetched
\* all the same; and a run that ends without such an error, however many
\* subpage and material GETs failed in it, has written a dashboard with one
\* card per parsed course row and answered status ok with that count.
C2_SubpageFailuresTolerated ==
    /\ response.status = "error" => response.at \in {"listing", "landing"}
    /\ (PagesDone /\ courses[idx].url # NoUrl) =>
          /\ ui = Len(urls) + 1
          /\ \A n \in {"scores", "files"} : HasKey(urls, n) => Requested(n)
    /\ (pc = "idle" /\ runs > 0 /\ response.status # "error") =>
          /\ response.status = "ok"
          /\ response.courses_count = Len(courses)
          /\ index_html.exists
          /\ Len(index_html.cards) = Len(courses)
          /\ \A i \in DOMAIN courses : index_html.cards[i].name = courses[i].name

C2_Witness ==
    /\ pc = "idle"
    /\ response.status = "ok"
    /\ nfail = 2
    /\ Len(courses) = 2
    /\ response.courses_count = 2
    /\ courses[1].url # NoUrl
    /\ courses[2].url # NoUrl

LandingFailed == reqs # <<>> /\ reqs[1].site = "landing" /\ ~ reqs[1].ok

\* C3: when the landing-page GET of a course fails, the processing of that
\* course stops there: no file is written (no course.html, no subpage, no
\* material), no GET but the failed one is issued for it, and no bundle is
\* appended for it.
C3_LandingFailureAbortsCourse ==
    LandingFailed =>
        /\ pc = "idle"
        /\ response.status = "error"
        /\ Len(reqs) = 1
        /\ fs = fs0
        /\ Len(courses_data) = idx - 1

C3_Witness ==
    /\ LandingFailed
    /\ idx = 2
    /\ runs = 2
    /\ fs # <<>>

\* C4: every GET carries the value COOKIE has when the GET is issued.
C4_FetchCarriesCurrentCookie == sent.cookie = sent.global

\* C5: for a course whose url is null, no GET is issued and no file or folder
\* is written while it is processed.
C5_NoUrlNoFetchNoWrite ==
    (InCourse /\ courses[idx].url = NoUrl) =>
        /\ reqs = <<>>
        /\ fs = fs0
        /\ dirs = dirs0
        /\ DataGet(data, "materials", <<>>) = <<>>

C5_Witness ==
    /\ pc = "materials"
    /\ courses[idx].url = NoUrl
    /\ idx = 2
    /\ fs # <<>>

CachedPath(name) == File(res.html_folder, HtmlFile(name))

\* C6: for syllabus and groups, a call of fetch_course_pages issues the GET
\* exactly when html/<safe_name>/<tag>.html is absent, and a file that is
\* present is neither fetched again nor changed; for files, every call whose
\* landing page lists it issues the GET, and a successful GET overwrites
\* files.html with the page received.
C6_CachePolicy ==
    (InCourse /\ courses[idx].url # NoUrl) =>
        /\ \A n \in {"syllabus", "groups"} :
              HasKey(urls, n) =>
                 /\ Exists(fs0, dirs0, CachedPath(n)) =>
                       /\ ~ Requested(n)
                       /\ fs[CachedPath(n)] = fs0[CachedPath(n)]
                 /\ (PagesDone /\ ~ Exists(fs0, dirs0, CachedPath(n))) => Requested(n)
        /\ (PagesDone /\ HasKey(urls, "files")) =>
              \E i \in DOMAIN reqs :
                 /\ reqs[i].site = "subpage"
                 /\ reqs[i].name = "files"
                 /\ reqs[i].ok =>
                       fs[CachedPath("files")] = Page(reqs[i].url, reqs[i].body)

C6_Witness ==
    /\ runs = 2
    /\ PagesDone
    /\ HasKey(urls, "groups")
    /\ Exists(fs0, dirs0, CachedPath("groups"))
    /\ ~ Exists(fs0, dirs0, CachedPath("syllabus"))
    /\ Requested("syllabus")
    /\ Exists(fs0, dirs0, CachedPath("files"))
    /\ fs[CachedPath("files")] # fs0[CachedPath("files")]

Materials == DataGet(data, "materials", <<>>)

\* C7: a turn of the material loop issues a GET exactly when the material has
\* a url and the file named by the basename of the url's path is absent from
\* courses/<safe_name>/material/ at that moment; otherwise nothing is fetched
\* or written; a failed download leaves the loop running at the next
\* material; and the loop is left only after the last material.
C7_MaterialDownloads ==
    [][ /\ (pc = "materials" /\ mi' # mi) =>
            LET m == Materials[mi]
                outpath == MaterialPath(res.course_folder, basename(m.url))
            IN /\ mi' = mi + 1
               /\ pc' = "materials"
               /\ IF m.url # NoUrl /\ ~ Exists(fs, dirs, outpath)
                  THEN /\ Len(reqs') = Len(reqs) + 1
                       /\ reqs'[Len(reqs')].site = "material"
                       /\ reqs'[Len(reqs')].url = m.url
                       /\ reqs'[Len(reqs')].ok => outpath \in DOMAIN fs'
                  ELSE reqs' = reqs /\ fs' = fs
        /\ (pc = "materials" /\ pc' # "materials" /\ res.course_folder # <<>>) =>
            /\ pc' = "loop"
            /\ mi > Len(Materials)
      ]_vars

C7_Witness ==
    /\ runs = 2
    /\ pc = "materials"
    /\ Len(Materials) = 3
    /\ mi > 3
    /\ MaterialPath(res.course_folder, "f1") \in DOMAIN fs0
    /\ \E i \in DOMAIN reqs :
          reqs[i].site = "material" /\ ~ reqs[i].ok /\ basename(reqs[i].url) = "f2"
    /\ ~ \E i \in DOMAIN reqs :
          reqs[i].site = "material" /\ basename(reqs[i].url) = "f1"

IsProxyLink(link) == link.endpoint = "/api/proxy?url="

\* C8: every syllabus link and every material link of the dashboard written
\* by api_generate is a /api/proxy?url=<encoded URL> reference.
C8_LinksGoThroughProxy ==
    index_html.exists =>
        \A i \in DOMAIN index_html.cards :
            LET card == index_html.cards[i] IN
            /\ card.syllabus_html # NoLink => IsProxyLink(card.syllabus_html)
            /\ \A j \in DOMAIN card.material_links : IsProxyLink(card.material_links[j])

\* C9: the dashboard a run writes has a syllabus link for every processed
\* course whose courses/<safe_name>/syllabus.pdf exists or whose landing page
\* yielded a syllabus_file URL in this run.
C9_SyllabusLinkRendered ==
    (pc = "idle" /\ response.status = "ok") =>
        \A i \in DOMAIN index_html.cards :
            ( \/ Exists(fs, dirs, File(course_folder_of(courses[i].name), "syllabus.pdf"))
              \/ "syllabus_file" \in captured[i] )
            => index_html.cards[i].syllabus_html # NoLink

\* ---- parse_files
LastMarker(rows, i) ==
    LET before == { j \in 1..(i - 1) : IsMarker(rows[j]) } IN
    IF before = {} THEN 0 ELSE CHOOSE j \in before : \A k \in before : k <= j

IsNamedMaterialRow(tr) == ~ IsMarker(tr) /\ tr.tds > 0 /\ Truthy(tr.name)

\* The row follows a marker whose lecturer equals my_lector case-insensitively
\* and precedes the next marker.
UnderMatchingMarker(rows, i, my_lector) ==
    /\ LastMarker(rows, i) # 0
    /\ Lower(rows[LastMarker(rows, i)].lector_link) = Lower(my_lector)

\* The row precedes the first marker, or follows a marker without a lecturer
\* name and precedes the next marker.
UnderNoLecturer(rows, i) ==
    \/ LastMarker(rows, i) = 0
    \/ rows[LastMarker(rows, i)].lector_link = NoText

RECURSIVE PickRows(_, _, _)
PickRows(rows, keep, i) ==
    IF i > Len(rows) THEN <<>>
    ELSE IF i \in keep THEN <<MaterialOf(rows[i])>> \o PickRows(rows, keep, i + 1)
    ELSE PickRows(rows, keep, i + 1)

HasMarkers(rows) == \E i \in DOMAIN rows : IsMarker(rows[i])

PfRows == pf_html.rows

\* C10 as stated: with lecturer markers in the table and my_lector known,
\* parse_files returns exactly the named material rows that follow a marker
\* of my_lector (case-insensitively) and precede the next marker.
C10_OnlyRowsUnderMyLector ==
    (pf_done /\ pf_html.table /\ HasMarkers(PfRows) /\ Truthy(pf_my_lector)) =>
        pf_result = PickRows(PfRows,
                             { i \in DOMAIN PfRows :
                                  /\ IsNamedMaterialRow(PfRows[i])
                                  /\ UnderMatchingMarker(PfRows, i, pf_my_lector) }, 1)

\* C10 as amended: with my_lector known, parse_files returns, in table order,
\* exactly the named material rows that follow a marker of my_lector
\* (case-insensitively) up to the next marker, together with those that come
\* before the first marker or under a marker without a lecturer name; rows
\* under a marker of another lecturer and marker rows are not returned.
C10_RowsNotUnderAnotherLector ==
    (pf_done /\ pf_html.table /\ Truthy(pf_my_lector)) =>
        pf_result = PickRows(PfRows,
                             { i \in DOMAIN PfRows :
                                  /\ IsNamedMaterialRow(PfRows[i])
                                  /\ \/ UnderMatchingMarker(PfRows, i, pf_my_lector)
                                     \/ UnderNoLecturer(PfRows, i) }, 1)

C10_Witness ==
    /\ pf_done
    /\ pf_html.table
    /\ pf_my_lector = <<"a">>
    /\ Len(PfRows) = 3
    /\ PfRows[1] = FileRow(<<"f">>, Upload("x", "f1"))
    /\ PfRows[2] = MarkerRow(<<"A">>)
    /\ PfRows[3] = FileRow(<<"g">>, NoUrl)
    /\ Len(pf_result) = 2

\* ---- the grades of a dashboard
\* The sum of the values of a function with a finite domain.
RECURSIVE SumFn(_)
SumFn(f) ==
    IF DOMAIN f = {} THEN 0
    ELSE LET x == CHOOSE x \in DOMAIN f : TRUE
         IN f[x] + SumFn([y \in DOMAIN f \ {x} |-> f[y]])

\* max-possible of a bundle: the sum of max_points over the assessments that
\* have both a score and a max_points.
MaxPossible(bundle) ==
    LET as == Assessments(bundle)
        both == { j \in DOMAIN as : as[j].score # NoText /\ as[j].max_points # 0 }
    IN SumFn([j \in both |-> as[j].max_points])

SmGrade(i) == sm_courses_data[i].course.grade

SmEcts(i) == sm_courses_data[i].course.ects

SmMax(i) == MaxPossible(sm_courses_data[i].data)

\* The courses that qualify for the GPA.
Qualifying ==
    { i \in DOMAIN sm_courses_data :
        IsNumber(SmGrade(i)) /\ SmMax(i) > 0 /\ IsNumber(SmEcts(i)) }

\* Ten times the grade points of a qualifying course.
GradePoints10(i) ==
    LET g == SmGrade(i).n
        m == SmMax(i)
    IN IF 100 * g >= 91 * m THEN 40
       ELSE IF 100 * g >= 81 * m THEN 30
       ELSE IF 100 * g >= 71 * m THEN 20
       ELSE IF 100 * g >= 61 * m THEN 10
       ELSE IF 100 * g >= 51 * m THEN 5
       ELSE 0

GpaExample ==
    << [course |-> [grade |-> Num(55), ects |-> Num(5)],
        data |-> [scores |-> << [assessments |-> << Assessment(<<"5", "5">>, 60) >>] >>]],
       [course |-> [grade |-> Num(90), ects |-> Num(6)],
        data |-> [scores |-> << [assessments |-> << Assessment(<<"5">>, 40),
                                                    Assessment(NoText, 30),
                                                    Assessment(<<"0">>, 60),
                                                    Assessment(<<"1">>, 0) >>] >>]] >>

\* C11: the gpa of generate_summary_html is the ECTS-weighted mean of the grade
\* points (4.0, 3.0, 2.0, 1.0, 0.5, 0.0 for grade / max-possible * 100 at
\* least 91, 81, 71, 61, 51, or less) over the qualifying courses whenever
\* their ECTS sum is positive; it is 0, rendered 0.00, when no course
\* qualifies; and for (55, 60, 5) and (90, 100, 6) it is rendered 3.45.
C11_GpaWeightedMean ==
    sm_pc = "done" =>
        LET ects_sum == SumFn([i \in Qualifying |-> SmEcts(i).n])
            weighted10 == SumFn([i \in Qualifying |-> GradePoints10(i) * SmEcts(i).n])
        IN /\ ects_sum > 0 => sm_gpa.num * 10 * ects_sum = weighted10 * sm_gpa.den
           /\ Qualifying = {} =>
                 /\ sm_gpa.num = 0
                 /\ sm_summary.gpa = <<"0", ".", "0", "0">>
           /\ sm_courses_data = GpaExample => sm_summary.gpa = <<"3", ".", "4", "5">>

C11_Witness ==
    /\ sm_pc = "done"
    /\ sm_courses_data = GpaExample
    /\ Qualifying = {1, 2}
    /\ sm_gpa.num * 11 = 38 * sm_gpa.den
    /\ sm_summary.gpa = <<"3", ".", "4", "5">>

NumericGrade == { i \in DOMAIN sm_courses_data : IsNumber(SmGrade(i)) }

\* C12: the total score shown is the sum of the grades of the courses whose
\* grade is numeric, the total max-possible the sum of every course's
\* max-possible, and the ECTS shown the sum of the ects of the courses whose
\* grade is numeric, whose max-possible is positive and whose ects is numeric;
\* so a course with a numeric grade and max-possible 0 counts in the total
\* score and neither in the ECTS nor in the GPA.
C12_SummaryTotals ==
    sm_pc = "done" =>
        /\ sm_summary.total_score = IntText(SumFn([i \in NumericGrade |-> SmGrade(i).n]))
        /\ sm_summary.total_max_possible =
              IntText(SumFn([i \in DOMAIN sm_courses_data |-> SmMax(i)]))
        /\ sm_summary.ects = IntText(SumFn([i \in Qualifying |-> SmEcts(i).n]))
        /\ (Len(sm_courses_data) = 1 /\ IsNumber(SmGrade(1)) /\ SmMax(1) = 0) =>
              /\ sm_summary.total_score = IntText(SmGrade(1).n)
              /\ sm_summary.ects = <<"0">>
              /\ sm_summary.gpa = <<"0", ".", "0", "0">>

C12_Witness ==
    /\ sm_pc = "done"
    /\ Len(sm_courses_data) = 2
    /\ SmGrade(1) = Num(65) /\ SmEcts(1) = Num(6) /\ SmMax(1) = 0
    /\ SmGrade(2) = Num(55) /\ SmEcts(2) = Num(5) /\ SmMax(2) = 60
    /\ sm_summary.total_score = <<"1", "2", "0">>
    /\ sm_summary.total_max_possible = <<"6", "0">>
    /\ sm_summary.ects = <<"5">>
    /\ sm_summary.gpa = <<"4", ".", "0", "0">>

\* The colour scale: the colour of the band num / den falls in.
ScaleColor(num, den) ==
    IF num >= 91 * den THEN "#22c55e"
    ELSE IF num >= 81 * den THEN "#84cc16"
    ELSE IF num >= 71 * den THEN "#eab308"
    ELSE IF num >= 61 * den THEN "#f97316"
    ELSE IF num >= 51 * den THEN "#ef4444"
    ELSE "#991b1b"

\* C13: in a course card, a numeric grade with max-possible > 0 is shown as
\* grade/max in the colour of the band of grade / max * 100, with a percentage
\* badge exactly when 0 < pct < 100; a numeric grade with max-possible 0 is
\* shown alone in the colour of the band of the grade itself (65 gives
\* #f97316), without a badge; a grade that is not numeric is shown as its text
\* in gray, without a badge.
C13_GradeDisplay ==
    sm_pc = "done" =>
        \A i \in DOMAIN sm_courses_data :
            LET g == SmGrade(i)
                m == SmMax(i)
                card == sm_cards[i]
            IN /\ (IsNumber(g) /\ m > 0) =>
                     /\ card.grade_display = IntText(g.n) \o <<"/">> \o IntText(m)
                     /\ card.grade_color = ScaleColor(100 * g.n, m)
                     /\ (card.pct_badge # NoText) <=> (0 < 100 * g.n /\ 100 * g.n < 100 * m)
               /\ (IsNumber(g) /\ m = 0) =>
                     /\ card.grade_display = IntText(g.n)
                     /\ card.grade_color = ScaleColor(g.n, 1)
                     /\ g.n = 65 => card.grade_color = "#f97316"
                     /\ card.pct_badge = NoText
               /\ ~ IsNumber(g) =>
                     /\ card.grade_display = g.s
                     /\ card.grade_color = "#52525b"
                     /\ card.pct_badge = NoText

C13_Witness ==
    /\ sm_pc = "done"
    /\ Len(sm_courses_data) = 2
    /\ SmGrade(1) = Num(65) /\ SmMax(1) = 0
    /\ sm_cards[1] = [grade_color |-> "#f97316", grade_display |-> <<"6", "5">>,
                      pct_badge |-> NoText]
    /\ SmGrade(2) = Num(55) /\ SmMax(2) = 60
    /\ sm_cards[2] = [grade_color |-> "#22c55e",
                      grade_display |-> <<"5", "5", "/", "6", "0">>,
                      pct_badge |-> <<"9", "2", "%">>]

\* ---- parse_num
\* C14: parse_num trims its text and reads a comma as the decimal separator;
\* it returns a number when the outcome parses as a decimal, and otherwise the
\* trimmed original text, character for character.
C14_ParseNumKeepsOriginalText ==
    pn_done =>
        LET trimmed == Strip(pn_td_text) IN
        IF IsFloatText(ReplaceComma(trimmed))
        THEN pn_result.isnum
        ELSE ~ pn_result.isnum /\ pn_result.s = trimmed

\* ---- a run that a landing page ends
\* C15: when the landing-page GET of a course with a url fails, api_generate
\* ends there with the error: no status/count answer is given, no bundle is
\* appended, index.html stays as it was, and the next step taken is the
\* listing fetch of another call, so that the courses after the failed one are
\* not processed; index.html is written only by a call that went through
\* every course of its listing.
C15_LandingFailureAbortsRun ==
    [][ /\ (pc = "loop" /\ LandingFailed') =>
              /\ courses[idx'].url # NoUrl
              /\ pc' = "idle"
              /\ response' = [status |-> "error", courses_count |-> 0, at |-> "landing"]
              /\ index_html' = index_html
              /\ courses_data' = courses_data
        /\ (pc = "idle" /\ LandingFailed) =>
              /\ runs' = runs + 1
              /\ idx' = 0
              /\ index_html' = index_html
        /\ index_html' # index_html =>
              /\ idx = Len(courses)
              /\ Len(courses_data) = Len(courses)
              /\ response'.status = "ok"
      ]_vars

C15_Witness ==
    /\ LandingFailed
    /\ pc = "idle"
    /\ runs = 2
    /\ idx = 1
    /\ Len(courses) = 2
    /\ courses[2].url # NoUrl
    /\ courses_data = <<>>
    /\ response.status = "error"
    /\ index_html.exists
    /\ Len(index_html.cards) = 1

\* ---- a refetch that fails
FetchFailed(n) ==
    \E i \in DOMAIN reqs : reqs[i].site = "subpage" /\ reqs[i].name = n /\ ~ reqs[i].ok

\* The title of the first row of a files page that has a link.
FirstLinkedName(page) ==
    LET linked == { j \in DOMAIN page.rows :
                      ~ IsMarker(page.rows[j]) /\ page.rows[j].href # NoUrl }
    IN page.rows[CHOOSE j \in linked : \A k \in linked : j <= k].name

\* C16: when the GET for scores (or files) fails in a call that found
\* html/<safe_name>/scores.html (or files.html) on disk, that file is left as
\* it was, the bundle of the course holds what that earlier copy says, and the
\* card of the course in the dashboard of this run shows it: the score and the
\* material title of the cached page.
C16_FailedRefetchUsesCachedCopy ==
    /\ (InCourse /\ courses[idx].url # NoUrl) =>
          \A n \in {"scores", "files"} :
              (FetchFailed(n) /\ CachedPath(n) \in DOMAIN fs0) =>
                  /\ CachedPath(n) \in DOMAIN fs
                  /\ fs[CachedPath(n)] = fs0[CachedPath(n)]
    /\ (pc = "materials" /\ courses[idx].url # NoUrl) =>
          /\ KeptPages["scores"] # <<>> =>
                /\ data.scores # <<>>
                /\ data.scores[1].assessments = KeptPages["scores"][1].body.assessments
          /\ KeptPages["files"] # <<>> =>
                /\ Materials # <<>>
                /\ Materials[1].name = FirstLinkedName(KeptPages["files"][1].body)
    /\ (pc = "idle" /\ response.status = "ok") =>
          \A i \in DOMAIN kept :
              /\ kept[i]["scores"] # <<>> =>
                    LET a == kept[i]["scores"][1].body.assessments[1] IN
                    index_html.cards[i].assessments =
                        << a.score \o <<"/">> \o IntText(a.max_points) >>
              /\ kept[i]["files"] # <<>> =>
                    /\ index_html.cards[i].material_names # <<>>
                    /\ index_html.cards[i].material_names[1] =
                          FirstLinkedName(kept[i]["files"][1].body)

C16_Witness ==
    /\ pc = "idle"
    /\ response.status = "ok"
    /\ runs = 2
    /\ Len(kept) = 1
    /\ kept[1]["scores"] # <<>>
    /\ kept[1]["files"] # <<>>
    /\ kept[1]["scores"][1].body.ver = 1
    /\ index_html.cards[1].assessments = << <<"1", "/", "6", "0">> >>
    /\ index_html.cards[1].material_names[1] = <<"a", "1">>

\* ---- the cache of one course and the next
\* The page was fetched from the landing URL of the course or from a URL
\* below it.
FetchedFrom(page, course) ==
    /\ page.src.host = course.url.host
    /\ Len(page.src.path) >= Len(course.url.path)
    /\ SubSeq(page.src.path, 1, Len(course.url.path)) = course.url.path

\* The page was fetched from a URL of some course other than this one.
FetchedFromAnother(page, course) ==
    /\ page.src.path # <<>>
    /\ page.src.path[1] = "course"
    /\ ~ FetchedFrom(page, course)

\* C17: while a course is processed, no cached scores.html, files.html,
\* groups.html or syllabus.pdf fetched from another course's URLs is changed,
\* and the bundle of the course is parsed only from
\* scores.html, files.html and groups.html fetched from the course's own
\* subpage URLs, in this run or an earlier one.
C17_CacheIsolation ==
    (InCourse /\ courses[idx].url # NoUrl) =>
        /\ \A p \in DOMAIN fs0 :
              ( /\ p[Len(p)] \in {"scores.html", "files.html", "groups.html", "syllabus.pdf"}
                /\ FetchedFromAnother(fs0[p], courses[idx]) )
              => fs[p] = fs0[p]
        /\ pc = "materials" =>
              \A n \in {"scores", "files", "groups"} :
                  CachedPath(n) \in DOMAIN fs =>
                      FetchedFrom(fs[CachedPath(n)], courses[idx])
====
